---- MODULE Spec2Model ----
(***************************************************************************)
(* Batch orchestration of the PSD toolkit: the two BatchJob classes of the *)
(* repository (the sequential one of main.py and the pooled one of         *)
(* psd_toolkit/job.py), their file discovery, output-path resolution,      *)
(* per-file task and statistics.                                           *)
(*                                                                         *)
(* A path is a record [parts, name]: parts is the sequence of directory    *)
(* components, name the file name split at its dots (<<"a","psd">> is      *)
(* a.psd).  A directory is the sequence of its components.                 *)
(***************************************************************************)
EXTENDS Integers, Sequences, FiniteSets, TLC

VARIABLES
    impl,           \* which BatchJob runs: "main" (main.py) or "job" (job.py)
    input_exists,   \* whether input_dir exists on disk
    tree,           \* the *.psd and other files below input_dir
    fate,           \* what the document processor does with each file
    recursive,      \* self.recursive
    output_dir,     \* self.output_dir
    output_format,  \* self.output_format
    max_workers,    \* self.max_workers (None is modelled as 0)
    pc,             \* position of run
    files,          \* files = list(self._get_files())
    total_files,    \* total_files = len(files)
    next,           \* number of files submitted (job) or looped over (main)
    task,           \* per file index: state of its future / loop iteration
    result,         \* per file index: what its future holds
    calls,          \* per file index: invocations of _process_single_file
    folded,         \* per file index: results folded into stats
    stats,          \* self.stats
    msgs,           \* per file index: the line printed for it
    printed,        \* other output: "nofiles", "found", "summary"
    summary,        \* the Total the summary reported
    pool,           \* the ThreadPoolExecutor: "none", "open", "shutdown"
    exc,            \* the exception run raised
    fs,             \* destination files written: dest -> source
    exit_code,      \* main(): <<>> while running, then <<code>>
    round,          \* calls of run on this BatchJob that are over
    prev,           \* what the futures of the previous call of run held
    psd,            \* PSDProcessor.psd: <<>> (None) or the layers
    before,         \* the layers as they were when hide_text_layers began
    hidden_count,   \* PSDProcessor.hidden_count
    ret             \* what the last call of hide_text_layers returned

vars == <<impl, input_exists, tree, fate, recursive, output_dir,
          output_format, max_workers, pc, files, total_files, next, task,
          result, calls, folded, stats, msgs, printed, summary, pool, exc,
          fs, exit_code, round, prev, psd, before, hidden_count, ret>>

\* the state of one PSDProcessor
doc == <<psd, before, hidden_count, ret>>

\* the state kept from earlier calls of run
runs == <<round, prev>>

config == <<impl, input_exists, tree, fate, recursive, output_dir,
            output_format, max_workers>>

-----------------------------------------------------------------------------
(* Bounds of the model *)

\* most *.psd files in the input tree
MaxFiles == 3

\* largest explicit max_workers
MaxWorkers == 2

\* most *.psd files in the input tree of a BatchJob that is run again
MaxRerunFiles == 2

\* most calls of run on one BatchJob
MaxRuns == 2

\* most layers of a document
MaxLayers == 3

-----------------------------------------------------------------------------
(* Paths *)

input_dir == <<"in">>

OutputDirs == {<<"in">>, <<"out">>}

OutputFormats == {"png", "jpg"}

Path(parts, name) == [parts |-> parts, name |-> name]

\* candidate *.psd files below input_dir, in the order the directory scan
\* meets them
PsdFiles ==
    <<Path(<<"in">>, <<"a", "psd">>),
      Path(<<"in", "sub">>, <<"a", "psd">>),
      Path(<<"in">>, <<"b", "v2", "psd">>),
      Path(<<"in", "sub", "deep">>, <<"c", "psd">>)>>

\* files that the pattern must not match
OtherFiles ==
    {Path(<<"in">>, <<"notes", "txt">>),
     Path(<<"in", "sub">>, <<"psd">>)}

NoPath == Path(<<>>, <<>>)

-----------------------------------------------------------------------------
(* pathlib *)

\* PurePath.stem: the name without its last suffix
stem(name) ==
    IF Len(name) > 1 THEN SubSeq(name, 1, Len(name) - 1) ELSE name

\* PurePath.with_suffix(".<ext>")
with_suffix(p, ext) == Path(p.parts, stem(p.name) \o <<ext>>)

IsPrefix(d, parts) ==
    /\ Len(d) <= Len(parts)
    /\ SubSeq(parts, 1, Len(d)) = d

\* PurePath.relative_to(d), for a path below d
relative_to(p, d) == Path(SubSeq(p.parts, Len(d) + 1, Len(p.parts)), p.name)

\* d / rel
join(d, rel) == Path(d \o rel.parts, rel.name)

\* fnmatch of a file name against "*.psd"
MatchesPsd(name) == Len(name) >= 2 /\ name[Len(name)] = "psd"

\* Path.glob("*.psd") when rec is false, Path.glob("**/*.psd") or
\* Path.rglob("*.psd") when it is true; a missing directory yields nothing
glob(rec) ==
    {p \in tree :
        /\ input_exists
        /\ MatchesPsd(p.name)
        /\ IF rec THEN IsPrefix(input_dir, p.parts) ELSE p.parts = input_dir}

\* list(...) of a glob: the matching files in the order of the scan
Listing(S) ==
    LET Member(p) == p \in S IN SelectSeq(PsdFiles, Member)

-----------------------------------------------------------------------------
(* Output-path resolution *)

\* main.py: BatchJob._calculate_output_path
_calculate_output_path(psd_path) ==
    IF recursive /\ output_dir # input_dir
    THEN join(output_dir, with_suffix(relative_to(psd_path, input_dir), "png"))
    ELSE Path(output_dir, stem(psd_path.name) \o <<"png">>)

\* _generate_output_path that appends the format to the whole name
_generate_output_path_keep(psd_path) ==
    Path(output_dir, psd_path.name \o <<output_format>>)

\* job.py: BatchJob._generate_output_path
_generate_output_path(psd_path) ==
    Path(output_dir, stem(psd_path.name) \o <<output_format>>)

OutputPath(psd_path) ==
    IF impl = "main" THEN _calculate_output_path(psd_path)
    ELSE _generate_output_path(psd_path)

-----------------------------------------------------------------------------
(* The per-file task *)

\* What the document processor does with a file: "ok", or the step that
\* raises an Exception ("load", "hide", "export"), or "base": a condition
\* that is not an Exception (SystemExit, KeyboardInterrupt, GeneratorExit)
\* raised while the document is opened.
Fates == {"ok", "load", "hide", "export", "base"}

\* the number of visible text layers of each document on disk, which is
\* what hide_text_layers returns for it: 0 for in/a.psd, 1 for in/sub/a.psd
\* and in/b.v2.psd, 2 for in/sub/deep/c.psd
TextLayers(p) == Len(p.parts) + Len(p.name) - 3

\* a task that goes on to the export after hide_text_layers raised
Steps_no_stop(p) ==
    CASE fate[p] \in {"load", "base"} -> <<"load">>
      [] OTHER -> <<"load", "hide_text_layers", "output_path", "export">>

\* job.py lines 93-99, main.py lines 111-117: the calls of one task in the
\* order made, up to the one that raises
Steps(p) ==
    CASE fate[p] \in {"load", "base"} -> <<"load">>
      [] fate[p] = "hide" -> <<"load", "hide_text_layers">>
      [] OTHER -> <<"load", "hide_text_layers", "output_path", "export">>

\* main.py line 44: the export makes the directory of the destination,
\* with its ancestors, before it renders and saves
Mkdir(p) ==
    IF "export" \in {Steps(p)[k] : k \in DOMAIN Steps(p)}
    THEN OutputPath(p).parts ELSE <<>>

\* _process_single_file whose handler catches a failed load only
_process_single_file_narrow(psd_path) ==
    CASE fate[psd_path] = "ok" ->
            [raises |-> FALSE, success |-> TRUE,
             message |-> [mark |-> "ok", name |-> psd_path.name,
                          text |-> "Hidden", count |-> TextLayers(psd_path)],
             count |-> TextLayers(psd_path),
             wrote |-> OutputPath(psd_path),
             steps |-> Steps(psd_path), mkdir |-> Mkdir(psd_path)]
      [] fate[psd_path] = "load" ->
            [raises |-> FALSE, success |-> FALSE,
             message |-> [mark |-> "fail", name |-> psd_path.name,
                          text |-> fate[psd_path], count |-> 0],
             count |-> 0,
             wrote |-> NoPath,
             steps |-> Steps(psd_path), mkdir |-> Mkdir(psd_path)]
      [] OTHER ->
            [raises |-> TRUE, success |-> FALSE,
             message |-> [mark |-> "none", name |-> <<>>,
                          text |-> "", count |-> 0],
             count |-> 0,
             wrote |-> NoPath,
             steps |-> Steps(psd_path), mkdir |-> Mkdir(psd_path)]

\* a task that fails when its destination is already there
_process_single_file_once(psd_path) ==
    IF fate[psd_path] = "ok" /\ OutputPath(psd_path) \notin DOMAIN fs
    THEN    [raises |-> FALSE, success |-> TRUE,
             message |-> [mark |-> "ok", name |-> psd_path.name,
                          text |-> "Hidden", count |-> TextLayers(psd_path)],
             count |-> TextLayers(psd_path),
             wrote |-> OutputPath(psd_path),
             steps |-> Steps(psd_path), mkdir |-> Mkdir(psd_path)]
    ELSE IF fate[psd_path] = "base"
    THEN    [raises |-> TRUE, success |-> FALSE,
             message |-> [mark |-> "none", name |-> <<>>,
                          text |-> "", count |-> 0],
             count |-> 0,
             wrote |-> NoPath,
             steps |-> Steps(psd_path), mkdir |-> Mkdir(psd_path)]
    ELSE    [raises |-> FALSE, success |-> FALSE,
             message |-> [mark |-> "fail", name |-> psd_path.name,
                          text |-> fate[psd_path], count |-> 0],
             count |-> 0,
             wrote |-> NoPath,
             steps |-> Steps(psd_path), mkdir |-> Mkdir(psd_path)]

\* job.py: BatchJob._process_single_file, the try branch and the handler of
\* Exception; raises is TRUE when the condition passes the handler.  steps
\* and mkdir record what the call did.
_process_single_file(psd_path) ==
    CASE fate[psd_path] = "ok" ->
            [raises |-> FALSE, success |-> TRUE,
             message |-> [mark |-> "ok", name |-> psd_path.name,
                          text |-> "Hidden", count |-> TextLayers(psd_path)],
             count |-> TextLayers(psd_path),
             wrote |-> OutputPath(psd_path),
             steps |-> Steps(psd_path), mkdir |-> Mkdir(psd_path)]
      [] fate[psd_path] \in {"load", "hide", "export"} ->
            [raises |-> FALSE, success |-> FALSE,
             message |-> [mark |-> "fail", name |-> psd_path.name,
                          text |-> fate[psd_path], count |-> 0],
             count |-> 0,
             wrote |-> NoPath,
             steps |-> Steps(psd_path), mkdir |-> Mkdir(psd_path)]
      [] OTHER ->
            [raises |-> TRUE, success |-> FALSE,
             message |-> [mark |-> "none", name |-> <<>>,
                          text |-> "", count |-> 0],
             count |-> 0,
             wrote |-> NoPath,
             steps |-> Steps(psd_path), mkdir |-> Mkdir(psd_path)]

NoResult ==
    [raises |-> FALSE, success |-> FALSE,
     message |-> [mark |-> "none", name |-> <<>>, text |-> "", count |-> 0],
     count |-> 0, wrote |-> NoPath, steps |-> <<>>, mkdir |-> <<>>]

\* a write that leaves an existing destination as it is
Write_first(r, src) ==
    IF r.wrote = NoPath \/ r.wrote \in DOMAIN fs THEN fs
    ELSE [d \in DOMAIN fs \cup {r.wrote} |->
            IF d = r.wrote THEN src ELSE fs[d]]

\* the export step's write of the destination file
Write(r, src) ==
    IF r.wrote = NoPath THEN fs
    ELSE [d \in DOMAIN fs \cup {r.wrote} |->
            IF d = r.wrote THEN src ELSE fs[d]]

\* Count that leaves failures out of the statistics
Count_success_only(r) ==
    IF r.success THEN [stats EXCEPT !.success = @ + 1] ELSE stats

\* Count that books a failure as skipped
Count_skipped(r) ==
    IF r.success
    THEN [stats EXCEPT !.success = @ + 1]
    ELSE [stats EXCEPT !.skipped = @ + 1]

\* stats["success"] += 1 or stats["failed"] += 1
Count(r) ==
    IF r.success
    THEN [stats EXCEPT !.success = @ + 1]
    ELSE [stats EXCEPT !.failed = @ + 1]

Bump(f, i) == [f EXCEPT ![i] = @ + 1]

-----------------------------------------------------------------------------
(* PSDProcessor: the layers of a document *)

\* layer.kind: "type" is a text layer
Kinds == {"type", "pixel", "group"}

\* A document is the sequence of its layers, each with the index of
\* the group that holds it (0: the document itself).  A document of n
\* layers can nest them n - 1 deep.
Documents ==
    UNION {{D \in [1..n -> [kind : Kinds, visible : BOOLEAN,
                            parent : 0..(n - 1)]] :
                \A i \in 1..n :
                    /\ D[i].parent < i
                    /\ D[i].parent # 0 => D[D[i].parent].kind = "group"} :
           n \in 1..MaxLayers}

\* the layers directly in the document or group q, top first
Children(D, q) ==
    LET Inside(i) == D[i].parent = q
        Indices == [i \in 1..Len(D) |-> i]
    IN SelectSeq(Indices, Inside)

\* an iteration over the layers of the document itself only
descendants_top(D) == Children(D, 0)

RECURSIVE Below_(_, _, _)
\* the layers of the list cs, each followed by what is inside it
Below_(D, cs, k) ==
    IF k > Len(cs) THEN <<>>
    ELSE <<cs[k]>> \o Below_(D, Children(D, cs[k]), 1) \o Below_(D, cs, k + 1)

\* main.py line 31: self.psd.descendants(), every layer of the document,
\* the layers of a group right after the group
descendants(D) == Below_(D, Children(D, 0), 1)

RECURSIVE HideLoop_every_text(_, _, _, _)
\* a loop that counts every text layer, visible or not
HideLoop_every_text(D, order, k, count) ==
    IF k > Len(order) THEN [psd |-> D, hidden_count |-> count]
    ELSE LET i == order[k] IN
         IF D[i].kind = "type"
         THEN HideLoop_every_text([D EXCEPT ![i].visible = FALSE], order,
                                  k + 1, count + 1)
         ELSE HideLoop_every_text(D, order, k + 1, count)

RECURSIVE HideLoop(_, _, _, _)
\* main.py lines 29-34: the loop over order from position k on, with the
\* count so far
HideLoop(D, order, k, count) ==
    IF k > Len(order) THEN [psd |-> D, hidden_count |-> count]
    ELSE LET i == order[k] IN
         IF D[i].kind = "type" /\ D[i].visible
         THEN HideLoop([D EXCEPT ![i].visible = FALSE], order, k + 1, count + 1)
         ELSE HideLoop(D, order, k + 1, count)

NoReturn == [called |-> FALSE, raised |-> FALSE, value |-> 0]

\* main.py lines 17-22: load(), of a file that holds document D
load(D) ==
    /\ psd' = D
    /\ before' = D
    /\ ret' = NoReturn
    /\ UNCHANGED hidden_count

\* main.py lines 24-36: hide_text_layers()
hide_text_layers ==
    IF psd = <<>>
    THEN /\ ret' = [called |-> TRUE, raised |-> TRUE, value |-> 0]
         /\ UNCHANGED <<psd, before, hidden_count>>
    ELSE LET r == HideLoop(psd, descendants(psd), 1, 0) IN
         /\ before' = psd
         /\ psd' = r.psd
         /\ hidden_count' = r.hidden_count
         /\ ret' = [called |-> TRUE, raised |-> FALSE,
                    value |-> r.hidden_count]

-----------------------------------------------------------------------------
(* Construction *)

Range(q) == {q[i] : i \in DOMAIN q}

Trees ==
    {S \cup OtherFiles : S \in {T \in SUBSET Range(PsdFiles) :
                                    Cardinality(T) <= MaxFiles}}

ZeroStats == [success |-> 0, failed |-> 0, skipped |-> 0]

NoSummary == -1

\* BatchJob.__init__ of either class, over an input directory that exists
\* or not; fate is drawn for the files the run will open
Init ==
    /\ impl \in {"main", "job"}
    /\ input_exists \in BOOLEAN
    /\ tree \in (IF input_exists THEN Trees ELSE {{}})
    /\ recursive \in BOOLEAN
    /\ output_dir \in OutputDirs
    /\ output_format \in (IF impl = "job" THEN OutputFormats ELSE {"png"})
    /\ max_workers \in (IF impl = "job" THEN 0..MaxWorkers ELSE {0})
    /\ fate \in [glob(recursive) -> Fates]
    /\ pc = "start"
    /\ files = <<>>
    /\ total_files = 0
    /\ next = 0
    /\ task = <<>>
    /\ result = <<>>
    /\ calls = <<>>
    /\ folded = <<>>
    /\ stats = ZeroStats
    /\ msgs = <<>>
    /\ printed = {}
    /\ summary = NoSummary
    /\ pool = "none"
    /\ exc = "none"
    /\ fs = <<>>
    /\ exit_code = <<>>
    /\ round = 0
    /\ prev = <<>>
    /\ psd = <<>>
    /\ before = <<>>
    /\ hidden_count = 0
    /\ ret = NoReturn

-----------------------------------------------------------------------------
(* run *)

Idx == 1..total_files

\* _print_summary(total_files) and the return that follows it
_print_summary ==
    /\ summary' = total_files
    /\ printed' = printed \cup {"summary"}
    /\ pc' = "returned"

\* Branch without the early return on no file
Branch_no_return(n) ==
    CASE impl = "main" -> IF n = 0 THEN "summary" ELSE "loop"
      [] n = 1 -> "single"
      [] OTHER -> "pool"

\* where run goes once it knows total_files: the early return on no file,
\* the loop of main.py, the single-file path or the pool of job.py
Branch(n) ==
    CASE n = 0 -> "returned"
      [] impl = "main" -> "loop"
      [] n = 1 -> "single"
      [] OTHER -> "pool"

\* lines 92-101 of main.py and 34-56 of job.py up to the branch taken:
\* list the files; a missing directory is an error in main.py only
Discover ==
    /\ pc = "start"
    /\ IF impl = "main" /\ ~input_exists
       THEN /\ exc' = "FileNotFoundError"
            /\ pc' = "raised"
            /\ UNCHANGED <<files, total_files, task, result, calls, folded,
                           msgs, printed>>
       ELSE LET q == Listing(glob(recursive)) IN
            /\ files' = q
            /\ total_files' = Len(q)
            /\ task' = [i \in 1..Len(q) |-> "new"]
            /\ result' = [i \in 1..Len(q) |-> NoResult]
            /\ calls' = [i \in 1..Len(q) |-> 0]
            /\ folded' = [i \in 1..Len(q) |-> 0]
            /\ msgs' = [i \in 1..Len(q) |-> NoResult.message]
            /\ printed' = printed \cup
                    (IF Len(q) = 0 THEN {"nofiles"} ELSE {"found"})
            /\ pc' = Branch(Len(q))
            /\ exc' = exc
    /\ UNCHANGED <<config, doc, runs, exit_code, next, stats, summary, pool, fs>>

\* a single-file path that returns without the summary
RunSingle_silent ==
    /\ pc = "single"
    /\ LET r == _process_single_file(files[1]) IN
        /\ calls' = Bump(calls, 1)
        /\ result' = [result EXCEPT ![1] = r]
        /\ fs' = Write(r, files[1])
        /\ IF r.raises
           THEN /\ pc' = "raised"
                /\ exc' = "BaseException"
                /\ UNCHANGED <<stats, folded, msgs, task>>
           ELSE /\ stats' = Count(r)
                /\ folded' = Bump(folded, 1)
                /\ msgs' = [msgs EXCEPT ![1] = r.message]
                /\ task' = [task EXCEPT ![1] = "collected"]
                /\ pc' = "returned"
                /\ exc' = exc
    /\ UNCHANGED <<config, doc, runs, exit_code, files, total_files, next,
                   pool, printed, summary>>

\* job.py lines 45-56: one file, processed on the calling thread
RunSingle ==
    /\ pc = "single"
    /\ LET r == _process_single_file(files[1]) IN
        /\ calls' = Bump(calls, 1)
        /\ result' = [result EXCEPT ![1] = r]
        /\ fs' = Write(r, files[1])
        /\ IF r.raises
           THEN /\ pc' = "raised"
                /\ exc' = "BaseException"
                /\ UNCHANGED <<stats, folded, msgs, printed, summary, task>>
           ELSE /\ stats' = Count(r)
                /\ folded' = Bump(folded, 1)
                /\ msgs' = [msgs EXCEPT ![1] = r.message]
                /\ task' = [task EXCEPT ![1] = "collected"]
                /\ _print_summary
                /\ exc' = exc
    /\ UNCHANGED <<config, doc, runs, exit_code, files, total_files, next, pool>>

\* job.py lines 59-68: the executor is created and the files are submitted
\* one after the other, while workers already run the first ones
Submit ==
    /\ pc = "pool"
    /\ next < total_files
    /\ pool' = "open"
    /\ next' = next + 1
    /\ task' = [task EXCEPT ![next + 1] = "queued"]
    /\ pc' = IF next + 1 = total_files THEN "collect" ELSE "pool"
    /\ UNCHANGED <<config, doc, runs, exit_code, files, total_files, result, calls, folded, stats,
                   msgs, printed, summary, exc, fs>>

\* threads of the default executor of the host
HostWorkers == 5

\* an executor that ignores max_workers
Workers_default == HostWorkers

\* ThreadPoolExecutor(max_workers=self.max_workers)
Workers == IF max_workers = 0 THEN HostWorkers ELSE max_workers

Running == {i \in Idx : task[i] = "running"}

\* a worker thread takes the oldest queued work item and calls
\* _process_single_file
StartTask(i) ==
    /\ pool = "open"
    /\ task[i] = "queued"
    /\ \A j \in 1..(i - 1) : task[j] # "queued"
    /\ Cardinality(Running) < Workers
    /\ task' = [task EXCEPT ![i] = "running"]
    /\ calls' = Bump(calls, i)
    /\ UNCHANGED <<config, doc, runs, exit_code, pc, files, total_files, next, result, folded,
                   stats, msgs, printed, summary, pool, exc, fs>>

\* a task that books its own outcome in the statistics
FinishTask_counts(i) ==
    /\ pool = "open"
    /\ task[i] = "running"
    /\ LET r == _process_single_file(files[i]) IN
        /\ result' = [result EXCEPT ![i] = r]
        /\ fs' = Write(r, files[i])
        /\ stats' = IF r.raises THEN stats ELSE Count(r)
    /\ task' = [task EXCEPT ![i] = "done"]
    /\ UNCHANGED <<config, doc, runs, exit_code, pc, files, total_files,
                   next, calls, folded, msgs, printed, summary, pool, exc>>

\* the call returns or raises; the future holds the outcome
FinishTask(i) ==
    /\ pool = "open"
    /\ task[i] = "running"
    /\ LET r == _process_single_file(files[i]) IN
        /\ result' = [result EXCEPT ![i] = r]
        /\ fs' = Write(r, files[i])
    /\ task' = [task EXCEPT ![i] = "done"]
    /\ UNCHANGED <<config, doc, runs, exit_code, pc, files, total_files, next, calls, folded,
                   stats, msgs, printed, summary, pool, exc>>

\* Collect that leaves the future among those still to be yielded
Collect_again(i) ==
    /\ pc = "collect"
    /\ task[i] = "done"
    /\ ~result[i].raises
    /\ stats' = Count(result[i])
    /\ folded' = Bump(folded, i)
    /\ msgs' = [msgs EXCEPT ![i] = result[i].message]
    /\ task' = [task EXCEPT ![i] = IF folded[i] = 0 THEN "done" ELSE "collected"]
    /\ UNCHANGED <<config, doc, runs, exit_code, pc, exc, files, total_files, next, result, calls,
                   printed, summary, pool, fs>>

\* job.py lines 75-86: as_completed yields a finished future and the loop
\* body takes future.result(), which re-raises what the call raised
Collect(i) ==
    /\ pc = "collect"
    /\ task[i] = "done"
    /\ IF result[i].raises
       THEN /\ pc' = "unwind"
            /\ exc' = "BaseException"
            /\ UNCHANGED <<task, stats, folded, msgs>>
       ELSE /\ stats' = Count(result[i])
            /\ folded' = Bump(folded, i)
            /\ msgs' = [msgs EXCEPT ![i] = result[i].message]
            /\ task' = [task EXCEPT ![i] = "collected"]
            /\ UNCHANGED <<pc, exc>>
    /\ UNCHANGED <<config, doc, runs, exit_code, files, total_files, next, result, calls, printed,
                   summary, pool, fs>>

\* a loop that stops at the first future yielded
LoopOver_first == \E i \in Idx : task[i] = "collected"

\* the as_completed loop has yielded every future
LoopOver == \A i \in Idx : task[i] = "collected"

\* shutdown(wait=False): the workers are not joined
Drained_nowait == TRUE

\* ThreadPoolExecutor.__exit__: shutdown(wait=True) joins the workers,
\* which first run every work item still queued
Drained == \A i \in Idx : task[i] \in {"done", "collected"}

\* job.py lines 59-61 and 86: the with blocks are left, after the loop or
\* with the exception in flight
Shutdown ==
    /\ pool = "open"
    /\ \/ pc = "collect" /\ LoopOver
       \/ pc = "unwind"
    /\ Drained
    /\ pool' = "shutdown"
    /\ pc' = IF pc = "unwind" THEN "raised" ELSE "summary"
    /\ UNCHANGED <<config, doc, runs, exit_code, files, total_files, next, task, result, calls,
                   folded, stats, msgs, printed, summary, exc, fs>>

\* job.py line 88, main.py line 126
PrintSummary ==
    /\ pc = "summary"
    /\ _print_summary
    /\ UNCHANGED <<config, doc, runs, exit_code, files, total_files, next, task, result, calls,
                   folded, stats, msgs, exc, pool, fs>>

\* main.py lines 103-124: one iteration of the sequential loop.  The line
\* of a file is the progress print of lines 104-108, which carries the
\* name, followed by "Done" or "X Failed"; when the condition is not an
\* Exception only the progress print is out.
LoopStep ==
    /\ pc = "loop"
    /\ next < total_files
    /\ LET i == next + 1
           r == _process_single_file(files[i]) IN
        /\ calls' = Bump(calls, i)
        /\ result' = [result EXCEPT ![i] = r]
        /\ fs' = Write(r, files[i])
        /\ next' = i
        /\ IF r.raises
           THEN /\ pc' = "raised"
                /\ exc' = "BaseException"
                /\ msgs' = [msgs EXCEPT ![i] =
                        [r.message EXCEPT !.name = files[i].name]]
                /\ UNCHANGED <<stats, folded, task>>
           ELSE /\ stats' = Count(r)
                /\ folded' = Bump(folded, i)
                /\ msgs' = [msgs EXCEPT ![i] = r.message]
                /\ task' = [task EXCEPT ![i] = "collected"]
                /\ pc' = IF i = total_files THEN "summary" ELSE "loop"
                /\ exc' = exc
    /\ UNCHANGED <<config, doc, runs, exit_code, files, total_files, printed, summary, pool>>

\* the status of a process ended by a condition that is not an Exception:
\* the code of a SystemExit, 130 after a KeyboardInterrupt, 1 otherwise
UncaughtCodes == {<<0>>, <<1>>, <<130>>}

\* main() that reports failed files in its exit status
main_strict ==
    /\ impl = "main"
    /\ exit_code = <<>>
    /\ pc \in {"returned", "raised"}
    /\ exit_code' = IF pc = "returned" /\ stats.failed = 0 THEN <<0>> ELSE <<1>>
    /\ UNCHANGED <<config, doc, runs, pc, files, total_files, next, task,
                   result, calls, folded, stats, msgs, printed, summary,
                   pool, exc, fs>>

\* main.py lines 161-166: main() around job.run(); an Exception is reported
\* and the process exits with 1, run returning ends the process with 0
main ==
    /\ impl = "main"
    /\ exit_code = <<>>
    /\ pc \in {"returned", "raised"}
    /\ exit_code' \in
            CASE pc = "returned" -> {<<0>>}
              [] exc = "FileNotFoundError" -> {<<1>>}
              [] OTHER -> UncaughtCodes
    /\ UNCHANGED <<config, doc, runs, pc, files, total_files, next, task,
                   result, calls, folded, stats, msgs, printed, summary,
                   pool, exc, fs>>

Next ==
    \/ Discover
    \/ RunSingle
    \/ Submit
    \/ \E i \in Idx : StartTask(i)
    \/ \E i \in Idx : FinishTask(i)
    \/ \E i \in Idx : Collect(i)
    \/ Shutdown
    \/ PrintSummary
    \/ LoopStep
    \/ main

Spec == Init /\ [][Next]_vars

-----------------------------------------------------------------------------
(* run called again on the same BatchJob *)

\* a second call that starts from fresh statistics
Rerun_reset ==
    /\ pc \in {"returned", "raised"}
    /\ exit_code = <<>>
    /\ round + 1 < MaxRuns
    /\ round' = round + 1
    /\ prev' = result
    /\ pc' = "start"
    /\ files' = <<>> /\ total_files' = 0 /\ next' = 0
    /\ task' = <<>> /\ result' = <<>> /\ calls' = <<>> /\ folded' = <<>>
    /\ msgs' = <<>> /\ printed' = {} /\ summary' = NoSummary
    /\ pool' = "none" /\ exc' = "none"
    /\ stats' = ZeroStats
    /\ UNCHANGED <<config, doc, exit_code, fs>>

\* job.py line 32, main.py line 90: run is entered again after it returned
\* or raised.  Its locals and the output of the new call start empty;
\* self.stats, set in __init__ only, and the files on disk are as the
\* earlier call left them.
Rerun ==
    /\ pc \in {"returned", "raised"}
    /\ exit_code = <<>>
    /\ round + 1 < MaxRuns
    /\ round' = round + 1
    /\ prev' = result
    /\ pc' = "start"
    /\ files' = <<>> /\ total_files' = 0 /\ next' = 0
    /\ task' = <<>> /\ result' = <<>> /\ calls' = <<>> /\ folded' = <<>>
    /\ msgs' = <<>> /\ printed' = {} /\ summary' = NoSummary
    /\ pool' = "none" /\ exc' = "none"
    /\ UNCHANGED <<config, doc, exit_code, stats, fs>>

InitRerun ==
    /\ Init
    /\ Cardinality(tree \cap Range(PsdFiles)) <= MaxRerunFiles

NextRerun == Next \/ Rerun

SpecRerun == InitRerun /\ [][NextRerun]_vars

-----------------------------------------------------------------------------
(* The single-file path against the pooled path *)

\* what a call of run leaves to see
Outcome ==
    [result |-> result, stats |-> stats, msgs |-> msgs, printed |-> printed,
     summary |-> summary, exc |-> exc, fs |-> fs,
     over |-> pc \in {"returned", "raised"}]

\* job.py lines 59-68 entered with the one file of the list: a fresh
\* BatchJob of the same configuration over the same, unwritten, tree takes
\* the pooled path for the file that the single-file path has processed
PooledAgain ==
    /\ pc \in {"returned", "raised"}
    /\ round = 0
    /\ total_files = 1
    /\ round' = 1
    /\ prev' = Outcome
    /\ pc' = "pool"
    /\ next' = 0
    /\ task' = [i \in Idx |-> "new"]
    /\ result' = [i \in Idx |-> NoResult]
    /\ calls' = [i \in Idx |-> 0]
    /\ folded' = [i \in Idx |-> 0]
    /\ msgs' = [i \in Idx |-> NoResult.message]
    /\ printed' = {"found"}
    /\ summary' = NoSummary
    /\ pool' = "none"
    /\ exc' = "none"
    /\ stats' = ZeroStats
    /\ fs' = <<>>
    /\ UNCHANGED <<config, doc, exit_code, files, total_files>>

InitFast ==
    /\ Init
    /\ impl = "job"
    /\ Cardinality(glob(recursive)) = 1

NextFast ==
    \/ Discover
    \/ RunSingle
    \/ PooledAgain
    \/ Submit
    \/ \E i \in Idx : StartTask(i)
    \/ \E i \in Idx : FinishTask(i)
    \/ \E i \in Idx : Collect(i)
    \/ Shutdown
    \/ PrintSummary

SpecFast == InitFast /\ [][NextFast]_vars

-----------------------------------------------------------------------------
(* One PSDProcessor on its own *)

batch == <<config, pc, files, total_files, next, task, result, calls,
           folded, stats, msgs, printed, summary, pool, exc, fs, exit_code,
           runs>>

\* PSDProcessor.__init__, with no BatchJob at work
InitLayers ==
    /\ impl = "main" /\ input_exists = FALSE /\ tree = {}
    /\ recursive = FALSE /\ output_dir = input_dir
    /\ output_format = "png" /\ max_workers = 0
    /\ fate = <<>>
    /\ pc = "start" /\ files = <<>> /\ total_files = 0 /\ next = 0
    /\ task = <<>> /\ result = <<>> /\ calls = <<>> /\ folded = <<>>
    /\ stats = ZeroStats /\ msgs = <<>> /\ printed = {}
    /\ summary = NoSummary /\ pool = "none" /\ exc = "none" /\ fs = <<>>
    /\ exit_code = <<>> /\ round = 0 /\ prev = <<>>
    /\ psd = <<>>
    /\ before = <<>>
    /\ hidden_count = 0
    /\ ret = NoReturn

\* main.py lines 111-112: load() is called once, on the new processor
Load ==
    /\ psd = <<>>
    /\ \E D \in Documents : load(D)
    /\ UNCHANGED batch

HideTextLayers == hide_text_layers /\ UNCHANGED batch

NextLayers == Load \/ HideTextLayers

SpecLayers == InitLayers /\ [][NextLayers]_vars

-----------------------------------------------------------------------------
(* Properties *)

Sum(f) ==
    LET RECURSIVE S(_)
        S(n) == IF n = 0 THEN 0 ELSE f[n] + S(n - 1)
    IN S(Len(f))

\* the files the run has to find, from the tree alone
Matching == glob(recursive)

Failing == {p \in Matching : fate[p] \in {"load", "hide", "export"}}

Uncaught == {p \in Matching : fate[p] = "base"}

\* C1: once run has returned over a directory of N >= 1 matching files, the
\* summary reported Total N and stats.success + stats.failed = N, for every
\* max_workers and every completion order.
C1_TotalIsN ==
    (pc = "returned" /\ Cardinality(Matching) >= 1) =>
        /\ summary = Cardinality(Matching)
        /\ stats.success + stats.failed = Cardinality(Matching)

C1_Witness ==
    /\ pc = "returned" /\ impl = "job" /\ max_workers = 1
    /\ Cardinality(Matching) = 3
    /\ stats.success >= 1 /\ stats.failed >= 1

\* C2: in one call of run no file is handed to _process_single_file twice
\* and no result is folded into stats twice, only the result of a finished
\* call is folded, and when run reaches its summary every discovered file
\* was processed exactly once and folded exactly once.
C2_ExactlyOnce ==
    /\ \A i \in DOMAIN calls :
        /\ calls[i] <= 1
        /\ folded[i] <= 1
        /\ folded[i] = 1 => (calls[i] = 1 /\ task[i] = "collected")
    /\ stats.success + stats.failed + stats.skipped = Sum(folded)
    /\ pc \in {"summary", "returned"} =>
        /\ Len(files) = Cardinality(Matching)
        /\ Range(files) = Matching
        /\ \A i \in DOMAIN calls : calls[i] = 1 /\ folded[i] = 1

C2_Witness ==
    /\ pc = "returned" /\ impl = "job" /\ max_workers = 2
    /\ total_files = 3
    /\ \A i \in Idx : folded[i] = 1

\* the line of a file that succeeds, whatever the other files do
LineIfAlone(p) ==
    [mark |-> "ok", name |-> p.name, text |-> "Hidden",
     count |-> TextLayers(p)]

\* C3: when a subset F of the N files fails in load, hide_text_layers or
\* export (and every other file succeeds), run is never aborted and stops
\* only by returning; when it has returned, every file was processed,
\* failed = |F| and success = N - |F|, the line of each file of F is a
\* failure line with that file's name, and each other file has the line
\* and the destination it has when no file fails.
C3_Isolation ==
    (input_exists /\ Uncaught = {}) =>
        /\ pc # "raised" /\ exc = "none"
        /\ (~ENABLED Next) => pc = "returned"
        /\ pc = "returned" =>
            /\ stats.failed = Cardinality(Failing)
            /\ stats.success = Cardinality(Matching) - Cardinality(Failing)
            /\ \A i \in Idx :
                /\ calls[i] = 1
                /\ files[i] \in Failing =>
                    /\ msgs[i].mark = "fail"
                    /\ msgs[i].name = files[i].name
                /\ files[i] \notin Failing =>
                    /\ msgs[i] = LineIfAlone(files[i])
                    /\ result[i].wrote # NoPath
                    /\ result[i].wrote \in DOMAIN fs

C3_Witness ==
    /\ pc = "returned" /\ impl = "job"
    /\ total_files = 3
    /\ Cardinality(Failing) = 1
    /\ stats.failed = 1 /\ stats.success = 2

\* C4: in the pooled run, whatever a task raises, nothing comes out of
\* future.result() to abort run, and when run has returned every file whose
\* task raised was counted as failed with a failure line of its own.
C4_NothingPropagates ==
    (impl = "job" /\ Cardinality(Matching) >= 2) =>
        /\ exc = "none"
        /\ pc \notin {"unwind", "raised"}
        /\ pc = "returned" =>
            /\ stats.failed = Cardinality(Failing) + Cardinality(Uncaught)
            /\ \A i \in Idx : fate[files[i]] = "base" =>
                    folded[i] = 1 /\ msgs[i].mark = "fail"

\* C5: when the input directory does not exist, run raises the not-found
\* error before anything else: nothing is listed, printed or dispatched, no
\* pool is created and the statistics stay zero.
C5_MissingDirRaises ==
    (~input_exists /\ pc # "start") =>
        /\ pc = "raised"
        /\ exc = "FileNotFoundError"
        /\ files = <<>> /\ printed = {}
        /\ pool = "none"
        /\ stats = ZeroStats

\* the directories of a source below the input root
Below(p) == SubSeq(p.parts, Len(input_dir) + 1, Len(p.parts))

\* the name of a destination: the source's name with its last suffix
\* replaced by the format
Renamed(src, dest, fmt) ==
    /\ Len(dest) = Len(src)
    /\ dest[Len(dest)] = fmt
    /\ \A k \in 1..(Len(src) - 1) : dest[k] = src[k]

Written == {i \in Idx : result[i].wrote # NoPath}

\* C6: with recursive set and an output root other than the input root,
\* the destination of inputRoot/<rel>/<name>.psd is
\* outputRoot/<rel>/<name>.<outputFormat>, and two sources never get the
\* same destination.
C6_Mirror ==
    (recursive /\ output_dir # input_dir) =>
        /\ \A i \in Written :
            /\ result[i].wrote.parts = output_dir \o Below(files[i])
            /\ Renamed(files[i].name, result[i].wrote.name, output_format)
        /\ \A i, j \in Written :
            result[i].wrote = result[j].wrote => i = j

\* C7: with recursive unset, or with the output root equal to the input
\* root, the destination of every source is directly in the output root
\* and named as the source with its last suffix replaced by the format,
\* whatever directory the source is in.
C7_Flat ==
    ~(recursive /\ output_dir # input_dir) =>
        \A i \in Written :
            /\ result[i].wrote.parts = output_dir
            /\ Renamed(files[i].name, result[i].wrote.name, output_format)

C7_Witness ==
    /\ recursive /\ output_dir = input_dir
    /\ \E i \in Written :
        /\ Len(files[i].parts) = 3
        /\ result[i].wrote = Path(<<"in">>, <<"c", output_format>>)
    /\ \E i \in Written : Len(files[i].name) = 3

\* C8: when discovery yields no file, run prints the no-files message and
\* returns: no pool, no task, no summary, statistics zero.
C8_NoFiles ==
    (Matching = {} /\ pc # "start" /\ exc # "FileNotFoundError") =>
        /\ pc = "returned"
        /\ printed = {"nofiles"}
        /\ summary = NoSummary
        /\ pool = "none"
        /\ files = <<>> /\ calls = <<>>
        /\ stats = ZeroStats

C8_Witness ==
    /\ pc = "returned" /\ input_exists /\ ~recursive
    /\ tree # OtherFiles
    /\ printed = {"nofiles"}

\* C9: with max_workers = k >= 1 and N >= 2 files, never more than k calls
\* of _process_single_file execute at once, while all N tasks are submitted
\* before any result is collected.
C9_Bounded ==
    (impl = "job" /\ max_workers >= 1) =>
        /\ Cardinality(Running) <= max_workers
        /\ pc = "collect" => next = total_files

C9_Witness ==
    /\ impl = "job" /\ max_workers = 2 /\ total_files = 3
    /\ pc = "collect"
    /\ Cardinality(Running) = 2
    /\ \E i \in Idx : task[i] = "queued"

\* C10: the summary is printed only when every submitted task has finished
\* and its result is counted: no task is queued, running or finished but
\* uncollected when run is at, or past, _print_summary.
C10_SummaryLast ==
    (pc = "summary" \/ "summary" \in printed) =>
        /\ \A i \in Idx : task[i] = "collected" /\ folded[i] = 1
        /\ stats.success + stats.failed = total_files
        /\ pool # "none" => (pool = "shutdown" /\ next = total_files)

C10_Witness ==
    /\ impl = "job" /\ total_files = 3 /\ max_workers = 0
    /\ pc = "summary"
    /\ pool = "shutdown"

\* C11: at every point of a run success + failed + skipped is the number
\* of results received so far and skipped is 0; in every step no counter
\* decreases, and the counters change exactly when one result is received,
\* by one of success or failed going up by one.
C11_Additive ==
    /\ [](/\ stats.success + stats.failed + stats.skipped = Sum(folded)
          /\ stats.skipped = 0)
    /\ [][/\ stats'.success >= stats.success
          /\ stats'.failed >= stats.failed
          /\ stats'.skipped >= stats.skipped
          /\ (DOMAIN folded' = DOMAIN folded /\ DOMAIN folded # {}) =>
                /\ Sum(folded') - Sum(folded) \in {0, 1}
                /\ (stats'.success - stats.success)
                    + (stats'.failed - stats.failed)
                        = Sum(folded') - Sum(folded)]_vars

C11_Witness ==
    /\ impl = "job" /\ pc = "collect"
    /\ stats.success = 1 /\ stats.failed = 1
    /\ \E i \in Idx : task[i] = "done"

\* C13: a pool exists only in a run of job.py that found two files or
\* more, and when run is over, by its return or by an error raised while
\* the results were collected, the pool it created is shut down and no
\* task is queued or running.
C13_PoolScoped ==
    /\ pool # "none" => (impl = "job" /\ Cardinality(Matching) >= 2)
    /\ (impl = "job" /\ pc \in {"pool", "collect", "unwind", "summary"}) =>
            Cardinality(Matching) >= 2
    /\ pc \in {"returned", "raised", "summary"} =>
        /\ pool \in {"none", "shutdown"}
        /\ \A i \in Idx : task[i] \notin {"queued", "running"}

C13_Witness ==
    /\ pc = "raised" /\ exc = "BaseException"
    /\ pool = "shutdown"
    /\ total_files = 3
    /\ \E i \in Idx : task[i] = "done" /\ ~result[i].raises

\* C15: the command-line entry point exits with 0 whenever run returned,
\* whatever the number of failed files, and with 1 when run raised the
\* not-found error of a missing input directory (the Exception that
\* escapes run).
C15_ExitCode ==
    exit_code # <<>> =>
        /\ pc = "returned" => exit_code = <<0>>
        /\ (pc = "raised" /\ exc # "BaseException") => exit_code = <<1>>
        /\ ~input_exists => exit_code = <<1>>

C15_Witness ==
    /\ exit_code = <<0>>
    /\ stats.failed = 2 /\ stats.success = 0

TaskOrder == <<"load", "hide_text_layers", "output_path", "export">>

Writers(d) == {i \in Written : result[i].wrote = d}

\* C18: when two files of a batch get the same destination, no error is
\* raised and both are reported and counted as successes; every write
\* replaces what the destination held, so at the end it holds the output
\* of the task that wrote last, one of the two.
C18_LastWriterWins ==
    /\ [](\A i, j \in Written :
            (i # j /\ result[i].wrote = result[j].wrote) =>
                /\ result[i].success /\ result[j].success
                /\ ~result[i].raises /\ ~result[j].raises
                /\ fs[result[i].wrote] \in {files[k] : k \in Writers(result[i].wrote)}
                /\ pc = "returned" =>
                    /\ exc = "none"
                    /\ msgs[i].mark = "ok" /\ msgs[j].mark = "ok"
                    /\ folded[i] = 1 /\ folded[j] = 1
                    /\ stats.success >= 2)
    /\ [][\A i \in DOMAIN result :
            (/\ DOMAIN result' = DOMAIN result
             /\ result'[i] # result[i]
             /\ result'[i].wrote # NoPath) =>
                fs'[result'[i].wrote] = files[i]]_vars

C18_Witness ==
    /\ impl = "job" /\ pc = "returned" /\ total_files >= 2
    /\ result[1].wrote # NoPath
    /\ result[1].wrote = result[2].wrote
    /\ files[1] # files[2]
    /\ fs[result[1].wrote] = files[1]
    /\ stats.success >= 2

\* C19: in the pooled run a step of a worker (a task starting or
\* finishing) changes neither the statistics nor the output, and every
\* change of the statistics or of the output lines of the files is made in
\* the completion loop of run, for one finished future, adding one.
C19_MainThreadOnly ==
    /\ [][(/\ impl = "job"
           /\ DOMAIN task' = DOMAIN task
           /\ \E i \in DOMAIN task :
                task[i] \in {"queued", "running"} /\ task'[i] # task[i]) =>
                    /\ stats' = stats /\ folded' = folded
                    /\ msgs' = msgs /\ printed' = printed]_vars
    /\ [][(/\ impl = "job" /\ pool # "none"
           /\ (stats' # stats \/ msgs' # msgs)) =>
                /\ pc = "collect"
                /\ \E i \in Idx :
                    /\ task[i] = "done" /\ task'[i] = "collected"
                    /\ \A j \in Idx \ {i} : task'[j] = task[j]
                    /\ folded' = Bump(folded, i)
                /\ stats'.success + stats'.failed
                        = stats.success + stats.failed + 1]_vars

C19_Witness ==
    /\ impl = "job" /\ pc = "collect"
    /\ stats.success + stats.failed = 1
    /\ Cardinality(Running) = 2

C20_StatsAccumulate ==
    (pc = "returned" /\ Uncaught = {} /\ Cardinality(Matching) >= 1) =>
        /\ stats.success + stats.failed = (round + 1) * Cardinality(Matching)
        /\ summary = Cardinality(Matching)
        /\ stats.skipped = 0

C20_Witness ==
    /\ round = 1 /\ pc = "returned"
    /\ Cardinality(Matching) = 2
    /\ stats.success + stats.failed = 4
    /\ summary = 2

\* C12: for a list of one file the single-file path of run leaves what the
\* pooled path leaves for that file: the same outcome and count, the same
\* line, the same destination written, the same statistics and summary
\* total, and the same condition raised if the task raises one.
C12_FastPathSame ==
    (round = 1 /\ pc \in {"returned", "raised"}) =>
        /\ prev.over
        /\ prev = Outcome
        /\ calls = <<1>>

C12_Witness ==
    /\ round = 1 /\ pc = "returned"
    /\ pool = "shutdown"
    /\ prev.stats.success = 1 /\ stats.success = 1
    /\ prev.summary = 1 /\ summary = 1
    /\ DOMAIN fs # {} /\ prev.fs = fs

\* how deep layer i is nested in document D
RECURSIVE Depth(_, _)
Depth(D, i) == IF D[i].parent = 0 THEN 0 ELSE 1 + Depth(D, D[i].parent)

====
